---- MODULE Spec2Model ----
(***************************************************************************)
(* Model of the Masa X MCP server: process start-up (cmd/masax-mcp main),  *)
(* the API client (internal/masax Client.Search) and the protocol adapter  *)
(* (internal/mcp handleMasaXSearch / handleReadSearchResult).              *)
(*                                                                         *)
(* Text is modelled as TLA+ strings, character by character: formatting,   *)
(* JSON encoding and JSON decoding are computed on the characters.         *)
(***************************************************************************)
EXTENDS Integers, Sequences, FiniteSets, TLC

VARIABLES
    pc,          \* where the process is: main's steps, then the request loop
    osEnv,       \* MASA_API_KEY in the process environment
    dotenv,      \* the .env file of the working directory
    envWarned,   \* main logged the warning that .env could not be loaded
    apiKey,      \* main's apiKey
    masaClient,  \* main's masaClient
    mcpServer,   \* main's mcpServer
    requests,    \* requests the loop has handed to a handler
    responses,   \* responses the loop has written
    lastReq,     \* the request being answered
    lastResp,    \* what its handler returned
    httpLog,     \* the HTTP requests sent while handling it
    lastRemote,  \* what the remote API did with the request sent for it
    toolMax,     \* max_results of the latest Search made for a tool call
    failures,    \* requests answered with an error so far
    fatalMsg     \* the message of log.Fatalf, once the process has died

vars == <<pc, osEnv, dotenv, envWarned, apiKey, masaClient, mcpServer,
          requests, responses, lastReq, lastResp, httpLog, lastRemote, toolMax,
          failures, fatalMsg>>

(***************************************************************************)
(* Bounds                                                                  *)
(***************************************************************************)
\* number of requests the transport delivers before the loop ends
MaxRequests == 2

(***************************************************************************)
(* Program constants                                                       *)
(***************************************************************************)
serverName == "MasaX_MCP_Server"
serverVersion == "0.1.0"
searchToolName == "masa_x_search"
searchResultResourcePrefix == "masax://search/results/"
searchIDParam == "search_id"
jsonMimeType == "application/json"
defaultBaseURL == "https://data.dev.masalabs.ai/api/v1"
searchPath == "/search/live/twitter"
\* http.Client{Timeout: 15 * time.Second}
httpTimeoutSeconds == 15

(***************************************************************************)
(* Strings                                                                 *)
(***************************************************************************)
At(s, i) == IF i >= 1 /\ i <= Len(s) THEN SubSeq(s, i, i) ELSE ""

HasPrefixAt(s, i, t) ==
    /\ i >= 1
    /\ i + Len(t) - 1 <= Len(s)
    /\ SubSeq(s, i, i + Len(t) - 1) = t

\* strings.Contains
Contains(s, t) == \E i \in 1..(Len(s) - Len(t) + 1) : HasPrefixAt(s, i, t)

\* the element of a singleton set.  Only({ e(x) : x \in {d} }) is e with x
\* bound to the value of d, which is computed once
Only(S) == CHOOSE x \in S : TRUE

Digits == <<"0", "1", "2", "3", "4", "5", "6", "7", "8", "9">>

IsDigit(c) == \E d \in 1..10 : Digits[d] = c

DigitVal(c) == (CHOOSE d \in 1..10 : Digits[d] = c) - 1

RECURSIVE NatToStr(_)
NatToStr(n) == IF n < 10 THEN Digits[n + 1]
               ELSE NatToStr(n \div 10) \o Digits[(n % 10) + 1]

\* the %d verb of fmt, and encoding/json's rendering of an int
Itoa(n) == IF n < 0 THEN "-" \o NatToStr(0 - n) ELSE NatToStr(n)

(***************************************************************************)
(* encoding/json, decoding: the text is scanned character by character     *)
(* into a value tree; Unmarshal* then fill the typed structs from it.      *)
(***************************************************************************)
Fail == [ok |-> FALSE]

JNull == [k |-> "null"]
JBool(b) == [k |-> "bool", b |-> b]
JNum(n) == [k |-> "num", n |-> n]
JStr(s) == [k |-> "str", s |-> s]
JArr(a) == [k |-> "arr", a |-> a]
JObj(m) == [k |-> "obj", m |-> m]

IsSpace(c) == c = " " \/ c = "\n"

RECURSIVE SkipWS(_, _)
SkipWS(s, i) == IF i <= Len(s) /\ IsSpace(At(s, i)) THEN SkipWS(s, i + 1) ELSE i

\* the body of a string literal, from the character after the opening quote
\* (of the \u escapes, those of the three characters the encoder writes so)
RECURSIVE ScanString(_, _, _)
ScanString(s, i, acc) ==
    IF i > Len(s) THEN Fail
    ELSE LET c == At(s, i) IN
         IF c = "\"" THEN [ok |-> TRUE, v |-> JStr(acc), i |-> i + 1]
         ELSE IF c = "\\" THEN
              LET e == At(s, i + 1) IN
              IF e = "\"" \/ e = "\\" \/ e = "/" THEN ScanString(s, i + 2, acc \o e)
              ELSE IF e = "n" THEN ScanString(s, i + 2, acc \o "\n")
              ELSE IF e = "u" /\ HasPrefixAt(s, i + 2, "003c") THEN ScanString(s, i + 6, acc \o "<")
              ELSE IF e = "u" /\ HasPrefixAt(s, i + 2, "003e") THEN ScanString(s, i + 6, acc \o ">")
              ELSE IF e = "u" /\ HasPrefixAt(s, i + 2, "0026") THEN ScanString(s, i + 6, acc \o "&")
              ELSE Fail
         ELSE IF c = "\n" THEN Fail
         ELSE ScanString(s, i + 1, acc \o c)

RECURSIVE ScanDigits(_, _, _)
ScanDigits(s, i, acc) ==
    IF IsDigit(At(s, i)) THEN ScanDigits(s, i + 1, acc * 10 + DigitVal(At(s, i)))
    ELSE [ok |-> TRUE, v |-> JNum(acc), i |-> i]

ScanNumber(s, i) ==
    IF At(s, i) = "-"
    THEN IF IsDigit(At(s, i + 1))
         THEN LET r == ScanDigits(s, i + 1, 0)
              IN [ok |-> TRUE, v |-> JNum(0 - r.v.n), i |-> r.i]
         ELSE Fail
    ELSE ScanDigits(s, i, 0)

RECURSIVE ParseValue(_, _), ParseMembers(_, _, _), ParseElements(_, _, _)

\* a value starting at position i (white space already skipped)
ParseValue(s, i) ==
    LET c == At(s, i) IN
    IF c = "{" THEN
        LET j == SkipWS(s, i + 1) IN
        IF At(s, j) = "}" THEN [ok |-> TRUE, v |-> JObj(<<>>), i |-> j + 1]
        ELSE ParseMembers(s, j, <<>>)
    ELSE IF c = "[" THEN
        LET j == SkipWS(s, i + 1) IN
        IF At(s, j) = "]" THEN [ok |-> TRUE, v |-> JArr(<<>>), i |-> j + 1]
        ELSE ParseElements(s, j, <<>>)
    ELSE IF c = "\"" THEN ScanString(s, i + 1, "")
    ELSE IF c = "-" \/ IsDigit(c) THEN ScanNumber(s, i)
    ELSE IF HasPrefixAt(s, i, "null") THEN [ok |-> TRUE, v |-> JNull, i |-> i + 4]
    ELSE IF HasPrefixAt(s, i, "true") THEN [ok |-> TRUE, v |-> JBool(TRUE), i |-> i + 4]
    ELSE IF HasPrefixAt(s, i, "false") THEN [ok |-> TRUE, v |-> JBool(FALSE), i |-> i + 5]
    ELSE Fail

\* "key": value pairs up to the closing brace; acc holds the pairs read
ParseMembers(s, i, acc) ==
    IF At(s, i) # "\"" THEN Fail
    ELSE LET key == ScanString(s, i + 1, "") IN
         IF ~key.ok THEN Fail
         ELSE LET j == SkipWS(s, key.i) IN
              IF At(s, j) # ":" THEN Fail
              ELSE LET val == ParseValue(s, SkipWS(s, j + 1)) IN
                   IF ~val.ok THEN Fail
                   ELSE LET n == SkipWS(s, val.i)
                            more == Append(acc, [key |-> key.v.s, val |-> val.v])
                        IN IF At(s, n) = "," THEN ParseMembers(s, SkipWS(s, n + 1), more)
                           ELSE IF At(s, n) = "}"
                                THEN [ok |-> TRUE, v |-> JObj(more), i |-> n + 1]
                                ELSE Fail

ParseElements(s, i, acc) ==
    LET val == ParseValue(s, i) IN
    IF ~val.ok THEN Fail
    ELSE LET n == SkipWS(s, val.i)
             more == Append(acc, val.v)
         IN IF At(s, n) = "," THEN ParseElements(s, SkipWS(s, n + 1), more)
            ELSE IF At(s, n) = "]" THEN [ok |-> TRUE, v |-> JArr(more), i |-> n + 1]
                 ELSE Fail

\* a whole document: one value, then only white space
Decode(s) ==
    LET r == ParseValue(s, SkipWS(s, 1)) IN
    IF r.ok /\ SkipWS(s, r.i) = Len(s) + 1 THEN r ELSE Fail

\* the value of the last member named key (a later duplicate overwrites)
HasField(obj, key) == \E i \in 1..Len(obj.m) : obj.m[i].key = key

Field(obj, key) ==
    LET i == CHOOSE i \in 1..Len(obj.m) :
                 /\ obj.m[i].key = key
                 /\ \A j \in (i + 1)..Len(obj.m) : obj.m[j].key # key
    IN obj.m[i].val

(***************************************************************************)
(* time.Time as encoding/json reads and writes it (RFC 3339).  An instant  *)
(* is a number; the texts the model uses are tabulated with their instants.*)
(***************************************************************************)
zeroTime == [instant |-> 0]

TimeTexts == <<
    [text |-> "0001-01-01T00:00:00Z", t |-> zeroTime],
    [text |-> "2024-05-01T12:00:00Z", t |-> [instant |-> 1]],
    [text |-> "2024-05-01T12:00:00.000Z", t |-> [instant |-> 1]] >>

\* time.Time.UnmarshalJSON
ParseTime(text) ==
    IF \E i \in 1..Len(TimeTexts) : TimeTexts[i].text = text
    THEN [ok |-> TRUE,
          t |-> TimeTexts[CHOOSE i \in 1..Len(TimeTexts) : TimeTexts[i].text = text].t]
    ELSE Fail

\* time.Time.MarshalJSON: the shortest text of the instant (RFC3339Nano)
FormatTime(t) ==
    TimeTexts[CHOOSE i \in 1..Len(TimeTexts) :
                /\ TimeTexts[i].t = t
                /\ \A j \in 1..Len(TimeTexts) :
                       TimeTexts[j].t = t => Len(TimeTexts[i].text) <= Len(TimeTexts[j].text)].text

(***************************************************************************)
(* The typed structures of the client and json.Unmarshal into them.        *)
(* A member that is absent or null leaves the field at its zero value; a   *)
(* member of the wrong JSON type is an error.                              *)
(***************************************************************************)
SearchRequest(query, maxResults) == [Query |-> query, MaxResults |-> maxResults]

zeroPublicMetrics ==
    [RetweetCount |-> 0, ReplyCount |-> 0, LikeCount |-> 0, QuoteCount |-> 0]

zeroSearchResult ==
    [ID |-> "", Text |-> "", AuthorID |-> "", CreatedAt |-> zeroTime,
     PublicMetrics |-> zeroPublicMetrics, URL |-> ""]

zeroSearchMetadata == [TotalResults |-> 0, NextToken |-> ""]

\* Items: a nil slice (isNil) or the elements in order
zeroSearchResponse ==
    [Items |-> [isNil |-> TRUE, v |-> <<>>], Metadata |-> zeroSearchMetadata]

zeroErrorResponse == [Error |-> [Code |-> "", Message |-> ""]]

Present(obj, key) == HasField(obj, key) /\ Field(obj, key).k # "null"

StrField(obj, key) ==
    IF ~Present(obj, key) THEN [ok |-> TRUE, v |-> ""]
    ELSE IF Field(obj, key).k = "str" THEN [ok |-> TRUE, v |-> Field(obj, key).s]
    ELSE Fail

IntField(obj, key) ==
    IF ~Present(obj, key) THEN [ok |-> TRUE, v |-> 0]
    ELSE IF Field(obj, key).k = "num" THEN [ok |-> TRUE, v |-> Field(obj, key).n]
    ELSE Fail

TimeField(obj, key) ==
    IF ~Present(obj, key) THEN [ok |-> TRUE, v |-> zeroTime]
    ELSE IF Field(obj, key).k = "str"
         THEN LET p == ParseTime(Field(obj, key).s)
              IN IF p.ok THEN [ok |-> TRUE, v |-> p.t] ELSE Fail
         ELSE Fail

PublicMetricsOf(v) ==
    IF v.k = "null" THEN [ok |-> TRUE, v |-> zeroPublicMetrics]
    ELSE IF v.k # "obj" THEN Fail
    ELSE LET a == IntField(v, "retweet_count")
             b == IntField(v, "reply_count")
             c == IntField(v, "like_count")
             d == IntField(v, "quote_count")
         IN IF a.ok /\ b.ok /\ c.ok /\ d.ok
            THEN [ok |-> TRUE,
                  v |-> [RetweetCount |-> a.v, ReplyCount |-> b.v,
                         LikeCount |-> c.v, QuoteCount |-> d.v]]
            ELSE Fail

SearchResultOf(v) ==
    IF v.k = "null" THEN [ok |-> TRUE, v |-> zeroSearchResult]
    ELSE IF v.k # "obj" THEN Fail
    ELSE LET id == StrField(v, "id")
             text == StrField(v, "text")
             author == StrField(v, "author_id")
             created == TimeField(v, "created_at")
             metrics == IF HasField(v, "public_metrics")
                        THEN PublicMetricsOf(Field(v, "public_metrics"))
                        ELSE [ok |-> TRUE, v |-> zeroPublicMetrics]
             url == StrField(v, "url")
         IN IF id.ok /\ text.ok /\ author.ok /\ created.ok /\ metrics.ok /\ url.ok
            THEN [ok |-> TRUE,
                  v |-> [ID |-> id.v, Text |-> text.v, AuthorID |-> author.v,
                         CreatedAt |-> created.v, PublicMetrics |-> metrics.v,
                         URL |-> url.v]]
            ELSE Fail

ItemsOf(v) ==
    IF v.k = "null" THEN [ok |-> TRUE, v |-> [isNil |-> TRUE, v |-> <<>>]]
    ELSE IF v.k # "arr" THEN Fail
    ELSE Only({ IF \A i \in 1..Len(rs) : rs[i].ok
                THEN [ok |-> TRUE,
                      v |-> [isNil |-> FALSE, v |-> [i \in 1..Len(rs) |-> rs[i].v]]]
                ELSE Fail :
                rs \in { [i \in 1..Len(v.a) |->
                            Only({ SearchResultOf(e) : e \in {v.a[i]} })] } })

SearchMetadataOf(v) ==
    IF v.k = "null" THEN [ok |-> TRUE, v |-> zeroSearchMetadata]
    ELSE IF v.k # "obj" THEN Fail
    ELSE LET total == IntField(v, "total_results")
             next == StrField(v, "next_token")
         IN IF total.ok /\ next.ok
            THEN [ok |-> TRUE, v |-> [TotalResults |-> total.v, NextToken |-> next.v]]
            ELSE Fail

\* the text of the error json.Unmarshal returns (the library's wording is
\* abridged to its kind)
jsonSyntaxError == "invalid character looking for beginning of value"
jsonEndError == "unexpected end of JSON input"
jsonTypeError == "json: cannot unmarshal value into Go struct field"

DecodeError(raw) == IF raw = "" THEN jsonEndError ELSE jsonSyntaxError

\* the SearchResponse a decoded document d of the text raw fills
SearchResponseOf(d, raw) ==
    IF ~d.ok THEN [err |-> TRUE, cause |-> DecodeError(raw), v |-> zeroSearchResponse]
    ELSE IF d.v.k = "null" THEN [err |-> FALSE, cause |-> "", v |-> zeroSearchResponse]
    ELSE IF d.v.k # "obj"
         THEN [err |-> TRUE, cause |-> jsonTypeError, v |-> zeroSearchResponse]
    ELSE Only({ IF items.ok /\ meta.ok
                THEN [err |-> FALSE, cause |-> "",
                      v |-> [Items |-> items.v, Metadata |-> meta.v]]
                ELSE [err |-> TRUE, cause |-> jsonTypeError, v |-> zeroSearchResponse] :
                items \in { IF HasField(d.v, "items")
                            THEN Only({ ItemsOf(f) : f \in {Field(d.v, "items")} })
                            ELSE [ok |-> TRUE, v |-> [isNil |-> TRUE, v |-> <<>>]] },
                meta \in { IF HasField(d.v, "metadata")
                           THEN Only({ SearchMetadataOf(f) : f \in {Field(d.v, "metadata")} })
                           ELSE [ok |-> TRUE, v |-> zeroSearchMetadata] } })

\* json.Unmarshal(raw, &searchResp)
UnmarshalSearchResponse(raw) == Only({ SearchResponseOf(d, raw) : d \in {Decode(raw)} })

\* the ErrorResponse a decoded document d fills
ErrorResponseOf(d) ==
    IF ~d.ok THEN [err |-> TRUE, v |-> zeroErrorResponse]
    ELSE IF d.v.k = "null" THEN [err |-> FALSE, v |-> zeroErrorResponse]
    ELSE IF d.v.k # "obj" THEN [err |-> TRUE, v |-> zeroErrorResponse]
    ELSE IF ~Present(d.v, "error") THEN [err |-> FALSE, v |-> zeroErrorResponse]
    ELSE IF Field(d.v, "error").k # "obj" THEN [err |-> TRUE, v |-> zeroErrorResponse]
    ELSE LET code == StrField(Field(d.v, "error"), "code")
             message == StrField(Field(d.v, "error"), "message")
         IN IF code.ok /\ message.ok
            THEN [err |-> FALSE, v |-> [Error |-> [Code |-> code.v, Message |-> message.v]]]
            ELSE [err |-> TRUE, v |-> zeroErrorResponse]

\* json.Unmarshal(raw, &apiError)
UnmarshalErrorResponse(raw) == Only({ ErrorResponseOf(d) : d \in {Decode(raw)} })

(***************************************************************************)
(* encoding/json, encoding                                                 *)
(***************************************************************************)
\* the encoder escapes quote, backslash and control characters, and writes
\* <, > and & as \u003c, \u003e and \u0026
EscapeChar(c) ==
    IF c = "\"" THEN "\\\""
    ELSE IF c = "\\" THEN "\\\\"
    ELSE IF c = "\n" THEN "\\n"
    ELSE IF c = "<" THEN "\\u003c"
    ELSE IF c = ">" THEN "\\u003e"
    ELSE IF c = "&" THEN "\\u0026"
    ELSE c

RECURSIVE EscapeFrom(_, _)
EscapeFrom(s, i) ==
    IF i > Len(s) THEN "" ELSE EscapeChar(At(s, i)) \o EscapeFrom(s, i + 1)

\* a string as a JSON string literal
Quote(s) == "\"" \o EscapeFrom(s, 1) \o "\""

\* json.Marshal(searchReq): max_results carries omitempty
MarshalSearchRequest(req) ==
    "{\"query\":" \o Quote(req.Query)
    \o (IF req.MaxResults = 0 THEN "" ELSE ",\"max_results\":" \o Itoa(req.MaxResults))
    \o "}"

IndentPublicMetrics(m, pad) ==
    "{\n"
    \o pad \o "  \"retweet_count\": " \o Itoa(m.RetweetCount) \o ",\n"
    \o pad \o "  \"reply_count\": " \o Itoa(m.ReplyCount) \o ",\n"
    \o pad \o "  \"like_count\": " \o Itoa(m.LikeCount) \o ",\n"
    \o pad \o "  \"quote_count\": " \o Itoa(m.QuoteCount) \o "\n"
    \o pad \o "}"

IndentSearchResult(r, pad) ==
    "{\n"
    \o pad \o "  \"id\": " \o Quote(r.ID) \o ",\n"
    \o pad \o "  \"text\": " \o Quote(r.Text) \o ",\n"
    \o pad \o "  \"author_id\": " \o Quote(r.AuthorID) \o ",\n"
    \o pad \o "  \"created_at\": " \o Quote(FormatTime(r.CreatedAt)) \o ",\n"
    \o pad \o "  \"public_metrics\": " \o IndentPublicMetrics(r.PublicMetrics, pad \o "  ") \o ",\n"
    \o pad \o "  \"url\": " \o Quote(r.URL) \o "\n"
    \o pad \o "}"

RECURSIVE IndentItemsFrom(_, _, _)
IndentItemsFrom(items, i, pad) ==
    IF i > Len(items) THEN ""
    ELSE pad \o IndentSearchResult(items[i], pad)
         \o (IF i < Len(items) THEN ",\n" ELSE "\n")
         \o IndentItemsFrom(items, i + 1, pad)

IndentItems(items, pad) ==
    IF items.isNil THEN "null"
    ELSE IF Len(items.v) = 0 THEN "[]"
    ELSE "[\n" \o IndentItemsFrom(items.v, 1, pad \o "  ") \o pad \o "]"

IndentSearchMetadata(m, pad) ==
    "{\n"
    \o pad \o "  \"total_results\": " \o Itoa(m.TotalResults)
    \o (IF m.NextToken = "" THEN "" ELSE ",\n" \o pad \o "  \"next_token\": " \o Quote(m.NextToken))
    \o "\n" \o pad \o "}"

\* json.MarshalIndent(searchResponse, "", "  ")
MarshalIndentSearchResponse(resp) ==
    "{\n"
    \o "  \"items\": " \o IndentItems(resp.Items, "  ") \o ",\n"
    \o "  \"metadata\": " \o IndentSearchMetadata(resp.Metadata, "  ") \o "\n"
    \o "}"

(***************************************************************************)
(* fmt: a format string applied to no operands, as fmt.Errorf(errMsg)      *)
(* applies it.  After a percent sign come flags, a width, a precision and  *)
(* the verb; "%%" writes one percent sign, any other verb finds no operand *)
(* and writes %!v(MISSING), a percent sign ending the string %!(NOVERB).   *)
(* ('*' and '[' after a percent sign are not modelled.)                    *)
(***************************************************************************)
IsFlag(c) == c = "#" \/ c = "0" \/ c = "+" \/ c = "-" \/ c = " "

RECURSIVE SkipFlags(_, _)
SkipFlags(f, i) == IF i <= Len(f) /\ IsFlag(At(f, i)) THEN SkipFlags(f, i + 1) ELSE i

RECURSIVE SkipNum(_, _)
SkipNum(f, i) == IF i <= Len(f) /\ IsDigit(At(f, i)) THEN SkipNum(f, i + 1) ELSE i

SkipPrecision(f, i) == IF At(f, i) = "." THEN SkipNum(f, i + 1) ELSE i

\* the position of the first percent sign at or after i, or Len(f) + 1
NextPercent(f, i) ==
    LET at == { j \in i..Len(f) : At(f, j) = "%" }
    IN IF at = {} THEN Len(f) + 1 ELSE CHOOSE j \in at : \A k \in at : j <= k

RECURSIVE SprintfNoArgs(_, _)
SprintfNoArgs(f, i) ==
    IF i > Len(f) THEN ""
    ELSE LET p == NextPercent(f, i) IN
         IF p > i THEN SubSeq(f, i, p - 1) \o SprintfNoArgs(f, p)
         ELSE LET v == SkipPrecision(f, SkipNum(f, SkipFlags(f, i + 1))) IN
              IF v > Len(f) THEN "%!(NOVERB)"
              ELSE IF At(f, v) = "%" THEN "%" \o SprintfNoArgs(f, v + 1)
              ELSE "%!" \o At(f, v) \o "(MISSING)" \o SprintfNoArgs(f, v + 1)

\* an error value: nil, or the text Error() returns
NilError == [isNil |-> TRUE, text |-> ""]
NewError(text) == [isNil |-> FALSE, text |-> text]

(***************************************************************************)
(* internal/masax: the API client                                          *)
(***************************************************************************)
NilClient == [isNil |-> TRUE, httpTimeout |-> 0, apiBaseURL |-> "", apiKey |-> ""]

\* NewClient(apiKey) with no options
NewClient(key) ==
    IF key = ""
    THEN [client |-> NilClient, err |-> NewError("masa X API key is required")]
    ELSE [client |-> [isNil |-> FALSE, httpTimeout |-> httpTimeoutSeconds,
                      apiBaseURL |-> defaultBaseURL, apiKey |-> key],
          err |-> NilError]

\* url.Parse refuses a URL holding a space or a control character
URLParses(u) == ~Contains(u, " ") /\ ~Contains(u, "\n")

\* url.JoinPath(base, elem): elem starts with "/" and base ends without one
JoinPath(base, elem) ==
    IF URLParses(base)
    THEN [url |-> (IF Len(base) > 0 /\ At(base, Len(base)) = "/"
                   THEN SubSeq(base, 1, Len(base) - 1) ELSE base) \o elem,
          err |-> NilError]
    ELSE [url |-> "", err |-> NewError("parse \"" \o base \o "\": invalid URL")]

\* steps 2 and 3 of Search: the POST request with its three headers
NewSearchRequest(c, ctx, body) ==
    LET joined == JoinPath(c.apiBaseURL, searchPath) IN
    IF ~joined.err.isNil
    THEN [req |-> [method |-> "", url |-> "", contentType |-> "", accept |-> "",
                   authorization |-> "", body |-> ""],
          err |-> NewError("failed to create search URL: " \o joined.err.text)]
    ELSE IF ctx.isNil
    THEN [req |-> [method |-> "", url |-> "", contentType |-> "", accept |-> "",
                   authorization |-> "", body |-> ""],
          err |-> NewError("failed to create HTTP request: net/http: nil Context")]
    ELSE [req |-> [method |-> "POST", url |-> joined.url,
                   contentType |-> "application/json", accept |-> "application/json",
                   authorization |-> "Bearer " \o c.apiKey, body |-> body],
          err |-> NilError]

\* c.httpClient.Do(req): the requests put on the wire by one call
Do(req, remote) == <<req>>

\* IsErrorStatus with the upper bound off by one
IsErrorStatusOffByOne(code) == code < 200 \/ code > 300

\* step 6's test of the status code
IsErrorStatus(code) == code < 200 \/ code >= 300

\* StructuredErrorText without the code
StructuredErrorTextNoCode(code, apiError) ==
    "masa X API error (HTTP " \o Itoa(code) \o "): " \o apiError.Error.Message

\* the structured API error of step 6
StructuredErrorText(code, apiError) ==
    "masa X API error (HTTP " \o Itoa(code) \o " - " \o apiError.Error.Code \o "): "
    \o apiError.Error.Message

\* the generic HTTP error of step 6
GenericErrorText(code, raw) ==
    "masa X API request failed with HTTP status " \o Itoa(code) \o ": " \o raw

\* which of the two errors step 6 returns
UseStructuredError(parsed) == ~parsed.err /\ parsed.v.Error.Message # ""

\* step 6: the error for a status outside [200,300)
StatusError(code, raw) ==
    Only({ NewError(IF UseStructuredError(parsed)
                    THEN StructuredErrorText(code, parsed.v)
                    ELSE GenericErrorText(code, raw)) :
           parsed \in {UnmarshalErrorResponse(raw)} })

\* DecodeSuccess returning a response other than the one it decoded into
DecodeSuccessShadowed(raw) ==
    Only({ IF parsed.err
           THEN [resp |-> zeroSearchResponse, isNil |-> TRUE,
                 err |-> NewError("failed to unmarshal successful response body: "
                                  \o parsed.cause)]
           ELSE [resp |-> zeroSearchResponse, isNil |-> FALSE, err |-> NilError] :
           parsed \in {UnmarshalSearchResponse(raw)} })

\* step 7: the response decoded from the body, or the decode error
DecodeSuccess(raw) ==
    Only({ IF parsed.err
           THEN [resp |-> zeroSearchResponse, isNil |-> TRUE,
                 err |-> NewError("failed to unmarshal successful response body: "
                                  \o parsed.cause)]
           ELSE [resp |-> parsed.v, isNil |-> FALSE, err |-> NilError] :
           parsed \in {UnmarshalSearchResponse(raw)} })

\* steps 5 to 7: what Search makes of the remote's answer
ReadResponse(remote) ==
    IF remote.kind = "readfail"
    THEN [resp |-> zeroSearchResponse, isNil |-> TRUE,
          err |-> NewError("failed to read response body: " \o remote.reason)]
    ELSE IF IsErrorStatus(remote.status)
    THEN [resp |-> zeroSearchResponse, isNil |-> TRUE,
          err |-> StatusError(remote.status, remote.body)]
    ELSE DecodeSuccess(remote.body)

\* SendAndRead sending the request again when the transport fails
SendAndReadRetrying(req, remote) ==
    IF remote.kind = "transport"
    THEN [resp |-> zeroSearchResponse, isNil |-> TRUE,
          err |-> NewError("failed to execute HTTP request: Post \"" \o req.url
                           \o "\": " \o remote.reason),
          wire |-> Do(req, remote) \o Do(req, remote)]
    ELSE Only({ [resp |-> r.resp, isNil |-> r.isNil, err |-> r.err,
                 wire |-> Do(req, remote)] : r \in {ReadResponse(remote)} })

\* steps 4 to 7: the request goes out once, and the answer is read
SendAndRead(req, remote) ==
    IF remote.kind = "transport"
    THEN [resp |-> zeroSearchResponse, isNil |-> TRUE,
          err |-> NewError("failed to execute HTTP request: Post \"" \o req.url
                           \o "\": " \o remote.reason),
          wire |-> Do(req, remote)]
    ELSE Only({ [resp |-> r.resp, isNil |-> r.isNil, err |-> r.err,
                 wire |-> Do(req, remote)] : r \in {ReadResponse(remote)} })

\* Client.Search(ctx, query, maxResults) against a remote that answers
\* `remote`: the response or the error, and the requests sent (wire)
Search(c, ctx, query, maxResults, remote) ==
    Only({ IF ~made.err.isNil
           THEN [resp |-> zeroSearchResponse, isNil |-> TRUE, err |-> made.err,
                 wire |-> <<>>]
           ELSE SendAndRead(made.req, remote) :
           made \in { NewSearchRequest(c, ctx,
                         MarshalSearchRequest(SearchRequest(query, maxResults))) } })

(***************************************************************************)
(* internal/mcp: the protocol adapter                                      *)
(***************************************************************************)
\* a value of the request's Arguments map: absent, or a JSON value decoded
\* into interface{} (a string, or a float64 held in tenths)
Absent == [t |-> "absent", s |-> "", n |-> 0]
StrArg(s) == [t |-> "str", s |-> s, n |-> 0]
NumArg(tenths) == [t |-> "num", s |-> "", n |-> tenths]

\* int(num) of a float64: the fraction is dropped, towards zero
TruncToInt(tenths) == IF tenths >= 0 THEN tenths \div 10 ELSE 0 - ((0 - tenths) \div 10)

NilServer == [isNil |-> TRUE, name |-> "", version |-> "", masaClient |-> NilClient,
              tools |-> {}, resources |-> {}]

\* NewServer that does not keep the client
NewServerWithoutClient(client) ==
    IF client.isNil
    THEN [server |-> NilServer, err |-> NewError("masax client cannot be nil")]
    ELSE [server |-> [isNil |-> FALSE, name |-> serverName, version |-> serverVersion,
                      masaClient |-> NilClient,
                      tools |-> {searchToolName},
                      resources |-> {searchResultResourcePrefix \o "{" \o searchIDParam \o "}"}],
          err |-> NilError]

\* NewServer(client), registerComponents included
NewServer(client) ==
    IF client.isNil
    THEN [server |-> NilServer, err |-> NewError("masax client cannot be nil")]
    ELSE [server |-> [isNil |-> FALSE, name |-> serverName, version |-> serverVersion,
                      masaClient |-> client,
                      tools |-> {searchToolName},
                      resources |-> {searchResultResourcePrefix \o "{" \o searchIDParam \o "}"}],
          err |-> NilError]

\* LogPrintln as log.Fatalln: the line written, then the process exits
LogFatalln(msg) == [line |-> msg, exit |-> TRUE]

\* log.Println(msg): the line written; the process goes on
LogPrintln(msg) == [line |-> msg, exit |-> FALSE]

NoLog == [line |-> "", exit |-> FALSE]

\* QueryOK without the test for the empty string
QueryOKAnyString(arg) == arg.t = "str"

\* request.Params.Arguments["query"].(string) and the test that follows
QueryOK(arg) == arg.t = "str" /\ arg.s # ""

\* the extraction of max_results
ExtractMaxResults(arg) == IF arg.t = "num" THEN TruncToInt(arg.n) ELSE 0

TextResourceContents(uri, mime, text) == [URI |-> uri, MIMEType |-> mime, Text |-> text]

\* mcp.NewToolResultError(text)
NewToolResultError(text) == [IsError |-> TRUE, Text |-> text, Resource |-> <<>>]

\* mcp.NewToolResultResource(text, resource)
NewToolResultResource(text, resource) ==
    [IsError |-> FALSE, Text |-> text, Resource |-> <<resource>>]

\* what the tool handler returns when Search fails
ToolSearchFailure(err) ==
    LET errMsg == "Masa X API error: " \o err.text
    IN [result |-> NewToolResultError(errMsg), err |-> NilError, log |-> LogPrintln(errMsg)]

\* what the tool handler returns when Search succeeds (json.MarshalIndent
\* does not fail on a SearchResponse that was decoded from JSON)
ToolSearchSuccess(query, searchResponse) ==
    LET jsonData == MarshalIndentSearchResponse(searchResponse)
        searchID == query
        resultURI == searchResultResourcePrefix \o searchID
        resultContents == TextResourceContents(resultURI, jsonMimeType, jsonData)
    IN [result |-> NewToolResultResource(
                       "Masa X search results for query: '" \o query \o "'",
                       resultContents),
        err |-> NilError, log |-> NoLog]

\* what the tool handler returns once Search has returned `found`
ToolOutcome(query, found) ==
    IF ~found.err.isNil THEN ToolSearchFailure(found.err)
    ELSE ToolSearchSuccess(query, found.resp)

\* the rest of handleMasaXSearch once query and maxResults are extracted
SearchForTool(srv, ctx, query, maxResults, remote) ==
    Only({ Only({ [result |-> out.result, err |-> out.err, log |-> out.log,
                   stdout |-> "Received search request for query: '" \o query
                              \o "', max_results: " \o Itoa(maxResults) \o "\n",
                   searches |-> <<SearchRequest(query, maxResults)>>,
                   searchErr |-> found.err, wire |-> found.wire] :
                  out \in { ToolOutcome(query, found) } }) :
           found \in { Search(srv.masaClient, ctx, query, maxResults, remote) } })

\* handleMasaXSearch(ctx, request) while the remote answers `remote`
handleMasaXSearch(srv, ctx, request, remote) ==
    IF ~QueryOK(request.Arguments.query)
    THEN [result |-> NewToolResultError("Missing or invalid 'query' argument"),
          err |-> NilError, log |-> NoLog, stdout |-> "", searches |-> <<>>,
          searchErr |-> NilError, wire |-> <<>>]
    ELSE SearchForTool(srv, ctx, request.Arguments.query.s,
                       ExtractMaxResults(request.Arguments.max_results), remote)

\* fmt.Errorf(errMsg): errMsg is the format and there are no operands
ErrorfNoArgs(errMsg) == NewError(SprintfNoArgs(errMsg, 1))

\* what the resource handler returns when Search fails
ReadSearchFailure(searchID, err) ==
    LET errMsg == "Failed to retrieve results for id '" \o searchID \o "': " \o err.text
    IN [contents |-> <<>>, err |-> ErrorfNoArgs(errMsg), log |-> LogPrintln(errMsg)]

\* SearchIDOK without the test for the empty string
SearchIDOKAnyString(arg) == arg.t = "str"

\* searchID, ok := request.Params.Arguments[searchIDParam].(string) and its test
SearchIDOK(arg) == arg.t = "str" /\ arg.s # ""

\* what the resource handler returns when Search succeeds (json.MarshalIndent
\* does not fail on a SearchResponse that was decoded from JSON)
ReadSearchSuccess(uri, searchResponse) ==
    [contents |-> <<TextResourceContents(uri, jsonMimeType,
                                         MarshalIndentSearchResponse(searchResponse))>>,
     err |-> NilError, log |-> NoLog]

\* what the resource handler returns once Search has returned `found`
ReadOutcome(uri, searchID, found) ==
    IF ~found.err.isNil THEN ReadSearchFailure(searchID, found.err)
    ELSE ReadSearchSuccess(uri, found.resp)

\* the query and max_results the resource handler searches with
ReadSearchArgs(searchID) == SearchRequest(searchID, 0)

\* the rest of handleReadSearchResult once searchID is extracted
SearchForRead(srv, ctx, uri, searchID, remote) ==
    Only({ Only({ [contents |-> out.contents, err |-> out.err, log |-> out.log,
                   stdout |-> "Received request to read search results for id/query: "
                              \o searchID \o "\n",
                   searches |-> <<ReadSearchArgs(searchID)>>,
                   searchErr |-> found.err, wire |-> found.wire] :
                  out \in { ReadOutcome(uri, searchID, found) } }) :
           found \in { Search(srv.masaClient, ctx, ReadSearchArgs(searchID).Query,
                              ReadSearchArgs(searchID).MaxResults, remote) } })

\* handleReadSearchResult(ctx, request) while the remote answers `remote`
handleReadSearchResult(srv, ctx, request, remote) ==
    IF ~SearchIDOK(request.Arguments.search_id)
    THEN [contents |-> <<>>,
          err |-> NewError("missing '" \o searchIDParam
                           \o "' argument in resource request for URI " \o request.URI),
          log |-> NoLog, stdout |-> "", searches |-> <<>>, searchErr |-> NilError,
          wire |-> <<>>]
    ELSE SearchForRead(srv, ctx, request.URI, request.Arguments.search_id.s, remote)

(***************************************************************************)
(* The environment: what the process finds at start, what the protocol     *)
(* client asks, and what the remote API answers.                           *)
(***************************************************************************)
\* MASA_API_KEY in the process environment: unset, set to "", or set
OsEnvs == { [set |-> FALSE, val |-> ""], [set |-> TRUE, val |-> ""],
            [set |-> TRUE, val |-> "key-env"] }

\* the .env file: missing, present without MASA_API_KEY, or defining it
DotEnvs == { [exists |-> FALSE, defines |-> FALSE, val |-> ""],
             [exists |-> TRUE, defines |-> FALSE, val |-> ""],
             [exists |-> TRUE, defines |-> TRUE, val |-> "key-file"] }

QueryArgs == { Absent, NumArg(70), StrArg(""), StrArg("hello"), StrArg("say \"hi\"") }

\* max_results: absent, a string, -1.5, 0, 2.5 and 5
MaxResultsArgs == { Absent, StrArg("5"), NumArg(0 - 15), NumArg(0), NumArg(25),
                    NumArg(50) }

SearchIDArgs == { Absent, NumArg(70), StrArg(""), StrArg("hello"), StrArg("a%d"),
                  StrArg("100%%") }

\* the URI a resource read names
ResourceURIs == { searchResultResourcePrefix \o "{search_id}" }

NoArgs == [query |-> Absent, max_results |-> Absent, search_id |-> Absent]

ToolRequests ==
    { [kind |-> "tool", URI |-> "",
       Arguments |-> [query |-> q, max_results |-> m, search_id |-> Absent]] :
      q \in QueryArgs, m \in MaxResultsArgs }

ResourceRequests ==
    { [kind |-> "resource", URI |-> u,
       Arguments |-> [query |-> Absent, max_results |-> Absent, search_id |-> id]] :
      u \in ResourceURIs, id \in SearchIDArgs }

\* a search response of two items, with escapes, an unknown member, a time
\* with a fraction and partial metrics
TwoItemsBody ==
    "{\"items\":[{\"id\":\"r2\",\"text\":\"a \\\"b\\\" \\/ <c>\",\"lang\":\"en\"},"
    \o "{\"id\":\"r1\",\"text\":\"hi\",\"created_at\":\"2024-05-01T12:00:00.000Z\","
    \o "\"public_metrics\":{\"like_count\":3}}],"
    \o "\"metadata\":{\"total_results\":2,\"next_token\":\"n1\"}}"

Bodies == {
    "",
    "Bad Gateway",
    "{\"error\":{\"code\":\"rate_limited\",\"message\":\"slow down\"}}",
    "{\"items\":[{\"id\":\"r1\",\"text\":\"hi\"}],\"metadata\":{\"total_results\":1}}",
    "{\"error\":{\"code\":\"bad\\/query\",\"message\":\"no \\\"q\\\"\"}}",
    "{\"error\":{\"code\":\"bad\\/query\",\"message\":\"\"}}",
    "{\"error\":\"denied\"}",
    TwoItemsBody,
    "{\"items\":[{\"id\":7}]}" }

Response(st, b) == [kind |-> "response", reason |-> "", status |-> st, body |-> b]

\* what the remote does with a request: no answer (the transport fails), an
\* answer whose body cannot be read, or a status and a body
Remotes ==
    { [kind |-> "transport", reason |-> "context deadline exceeded", status |-> 0, body |-> ""],
      [kind |-> "readfail", reason |-> "unexpected EOF", status |-> 200, body |-> ""],
      Response(299, TwoItemsBody), Response(300, TwoItemsBody),
      Response(199, TwoItemsBody) }
    \cup { Response(st, b) : st \in {200, 429}, b \in Bodies }

\* the context the framework hands to a handler is never nil
RequestContext == [isNil |-> FALSE]

NoRemote == [kind |-> "none", reason |-> "", status |-> 0, body |-> ""]

NoRequest == [kind |-> "none", URI |-> "", Arguments |-> NoArgs]

NoToolResult == [IsError |-> FALSE, Text |-> "", Resource |-> <<>>]

NoResponse == [kind |-> "none", result |-> NoToolResult, contents |-> <<>>,
               err |-> NilError, log |-> NoLog, searches |-> <<>>,
               searchErr |-> NilError]

(***************************************************************************)
(* The process: main, then the request loop                                *)
(***************************************************************************)
Init ==
    /\ pc = "loadEnv"
    /\ osEnv \in OsEnvs
    /\ dotenv \in DotEnvs
    /\ envWarned = FALSE
    /\ apiKey = ""
    /\ masaClient = NilClient
    /\ mcpServer = NilServer
    /\ requests = 0
    /\ responses = 0
    /\ lastReq = NoRequest
    /\ lastResp = NoResponse
    /\ httpLog = <<>>
    /\ lastRemote = NoRemote
    /\ toolMax = 0
    /\ failures = 0
    /\ fatalMsg = ""

\* godotenv.Load(): a variable of the file is set unless the environment
\* already has it; a missing file is a warning
LoadEnv ==
    /\ pc = "loadEnv"
    /\ envWarned' = ~dotenv.exists
    /\ osEnv' = IF dotenv.exists /\ dotenv.defines /\ ~osEnv.set
                THEN [set |-> TRUE, val |-> dotenv.val] ELSE osEnv
    /\ pc' = "getenv"
    /\ UNCHANGED <<dotenv, apiKey, masaClient, mcpServer, requests, responses,
                   lastReq, lastResp, httpLog, lastRemote, toolMax, failures, fatalMsg>>

\* os.Getenv("MASA_API_KEY")
Getenv(env) == IF env.set THEN env.val ELSE ""

\* main's test of the key it read
KeyMissing(key) == key = ""

GetApiKey ==
    /\ pc = "getenv"
    /\ apiKey' = Getenv(osEnv)
    /\ IF KeyMissing(Getenv(osEnv))
       THEN /\ pc' = "fatal"
            /\ fatalMsg' = "Error: MASA_API_KEY environment variable not set."
       ELSE /\ pc' = "newClient"
            /\ fatalMsg' = fatalMsg
    /\ UNCHANGED <<osEnv, dotenv, envWarned, masaClient, mcpServer, requests,
                   responses, lastReq, lastResp, httpLog, lastRemote, toolMax, failures>>

CreateClient ==
    /\ pc = "newClient"
    /\ LET made == NewClient(apiKey) IN
       IF ~made.err.isNil
       THEN /\ pc' = "fatal"
            /\ fatalMsg' = "Failed to create Masa X client: " \o made.err.text
            /\ masaClient' = masaClient
       ELSE /\ pc' = "newServer"
            /\ fatalMsg' = fatalMsg
            /\ masaClient' = made.client
    /\ UNCHANGED <<osEnv, dotenv, envWarned, apiKey, mcpServer, requests, responses,
                   lastReq, lastResp, httpLog, lastRemote, toolMax, failures>>

CreateServer ==
    /\ pc = "newServer"
    /\ LET made == NewServer(masaClient) IN
       IF ~made.err.isNil
       THEN /\ pc' = "fatal"
            /\ fatalMsg' = "Failed to create MCP server: " \o made.err.text
            /\ mcpServer' = mcpServer
       ELSE /\ pc' = "serving"
            /\ fatalMsg' = fatalMsg
            /\ mcpServer' = made.server
    /\ UNCHANGED <<osEnv, dotenv, envWarned, apiKey, masaClient, requests, responses,
                   lastReq, lastResp, httpLog, lastRemote, toolMax, failures>>

\* where the process is once a handler that logged `log` has returned
AfterHandler(log) == IF log.exit THEN "fatal" ELSE "responding"

\* the request loop hands a tool call to handleMasaXSearch
CallTool ==
    /\ pc = "serving"
    /\ requests < MaxRequests
    /\ \E request \in ToolRequests, remote \in Remotes :
       \E out \in { handleMasaXSearch(mcpServer, RequestContext, request, remote) } :
         /\ lastReq' = request
         /\ lastResp' = [kind |-> "tool", result |-> out.result, contents |-> <<>>,
                         err |-> out.err, log |-> out.log, searches |-> out.searches,
                         searchErr |-> out.searchErr]
         /\ httpLog' = out.wire
         /\ lastRemote' = IF Len(out.wire) > 0 THEN remote ELSE NoRemote
         /\ failures' = IF out.result.IsError \/ ~out.err.isNil
                         THEN failures + 1 ELSE failures
         /\ toolMax' = IF Len(out.searches) > 0 THEN out.searches[1].MaxResults
                       ELSE toolMax
         /\ pc' = AfterHandler(out.log)
         /\ fatalMsg' = IF out.log.exit THEN out.log.line ELSE fatalMsg
    /\ requests' = requests + 1
    /\ UNCHANGED <<osEnv, dotenv, envWarned, apiKey, masaClient, mcpServer, responses>>

\* the request loop hands a resource read to handleReadSearchResult
ReadResource ==
    /\ pc = "serving"
    /\ requests < MaxRequests
    /\ \E request \in ResourceRequests, remote \in Remotes :
       \E out \in { handleReadSearchResult(mcpServer, RequestContext, request, remote) } :
         /\ lastReq' = request
         /\ lastResp' = [kind |-> "resource", result |-> NoToolResult,
                         contents |-> out.contents, err |-> out.err, log |-> out.log,
                         searches |-> out.searches, searchErr |-> out.searchErr]
         /\ httpLog' = out.wire
         /\ lastRemote' = IF Len(out.wire) > 0 THEN remote ELSE NoRemote
         /\ failures' = IF ~out.err.isNil THEN failures + 1 ELSE failures
         /\ pc' = AfterHandler(out.log)
         /\ fatalMsg' = IF out.log.exit THEN out.log.line ELSE fatalMsg
    /\ requests' = requests + 1
    /\ UNCHANGED <<osEnv, dotenv, envWarned, apiKey, masaClient, mcpServer, responses,
                   toolMax>>

\* the request loop writes the handler's answer and waits for the next request
WriteResponse ==
    /\ pc = "responding"
    /\ pc' = "serving"
    /\ responses' = responses + 1
    /\ lastReq' = NoRequest
    /\ lastResp' = NoResponse
    /\ httpLog' = <<>>
    /\ lastRemote' = NoRemote
    /\ UNCHANGED <<osEnv, dotenv, envWarned, apiKey, masaClient, mcpServer, requests,
                   toolMax, failures, fatalMsg>>

\* server.ServeStdio returns nil when the input ends: main returns
TransportClosed ==
    /\ pc = "serving"
    /\ pc' = "done"
    /\ UNCHANGED <<osEnv, dotenv, envWarned, apiKey, masaClient, mcpServer, requests,
                   responses, lastReq, lastResp, httpLog, lastRemote, toolMax, failures, fatalMsg>>

\* server.ServeStdio returns an error of the transport: log.Fatalf
TransportFailed ==
    /\ pc = "serving"
    /\ pc' = "fatal"
    /\ fatalMsg' = "Server error: transport"
    /\ UNCHANGED <<osEnv, dotenv, envWarned, apiKey, masaClient, mcpServer, requests,
                   responses, lastReq, lastResp, httpLog, lastRemote, toolMax, failures>>

Next ==
    \/ LoadEnv
    \/ GetApiKey
    \/ CreateClient
    \/ CreateServer
    \/ CallTool
    \/ ReadResource
    \/ WriteResponse
    \/ TransportClosed
    \/ TransportFailed

Spec == Init /\ [][Next]_vars

(***************************************************************************)
(* Properties                                                              *)
(***************************************************************************)
\* a handler has returned and its answer is not yet written
Answering(kind) == pc = "responding" /\ lastReq.kind = kind

\* the argument is no non-empty string
NotAString(arg) == arg.t # "str" \/ arg.s = ""

\* the remote answered with a status outside [200,300)
NonSuccess == lastRemote.kind = "response"
              /\ (lastRemote.status < 200 \/ lastRemote.status >= 300)

\* C1: a tool call whose query is absent, no string or empty is answered,
\* whatever max_results is, with the error result "Missing or invalid 'query'
\* argument"; Search is not called and nothing is sent.
C1_InvalidQueryRejected ==
    (Answering("tool") /\ NotAString(lastReq.Arguments.query)) =>
        /\ lastResp.result.IsError
        /\ lastResp.result.Text = "Missing or invalid 'query' argument"
        /\ lastResp.result.Resource = <<>>
        /\ lastResp.err.isNil
        /\ lastResp.searches = <<>>
        /\ httpLog = <<>>

\* the scenario {"max_results": 5} with no query, and an empty query
C1_Witness ==
    /\ Answering("tool")
    /\ lastReq.Arguments.query = Absent
    /\ lastReq.Arguments.max_results = NumArg(50)
    /\ lastResp.result.IsError

\* C2 as stated: a status outside [200,300) with a body that parses as
\* {error:{code,message}}, the message empty or not, gives an error result
\* whose text contains the body's code and the body's message.
C2_AnyParsedErrorBody ==
    (Answering("tool") /\ NonSuccess) =>
        \A parsed \in {UnmarshalErrorResponse(lastRemote.body)} :
            ~parsed.err =>
                /\ lastResp.result.IsError
                /\ Contains(lastResp.result.Text, parsed.v.Error.Code)
                /\ Contains(lastResp.result.Text, parsed.v.Error.Message)

\* C2, amended: with a non-empty message the error result's text contains
\* the status, the code and the message as decoded; with an empty message it
\* contains the status and the body as received.
C2_ParsedErrorBody ==
    (Answering("tool") /\ NonSuccess) =>
        \A parsed \in {UnmarshalErrorResponse(lastRemote.body)} :
            ~parsed.err =>
                /\ lastResp.result.IsError
                /\ lastResp.err.isNil
                /\ Contains(lastResp.result.Text, Itoa(lastRemote.status))
                /\ IF parsed.v.Error.Message # ""
                   THEN /\ Contains(lastResp.result.Text, parsed.v.Error.Code)
                        /\ Contains(lastResp.result.Text, parsed.v.Error.Message)
                   ELSE Contains(lastResp.result.Text, lastRemote.body)

\* a 429 whose code and message are written with escapes in the body
C2_Witness ==
    /\ Answering("tool")
    /\ NonSuccess
    /\ lastRemote.body = "{\"error\":{\"code\":\"bad\\/query\",\"message\":\"no \\\"q\\\"\"}}"
    /\ Contains(lastResp.result.Text, "(HTTP 429 - bad/query): no \"q\"")

\* C3: a status outside [200,300) never gives a successful result, and with
\* a body that does not parse as an ErrorResponse the error result's text
\* contains the status in decimal and the body as received.
C3_NonSuccessIsError ==
    (Answering("tool") /\ NonSuccess) =>
        /\ lastResp.result.IsError
        /\ lastResp.result.Resource = <<>>
        /\ lastResp.err.isNil
        /\ \A parsed \in {UnmarshalErrorResponse(lastRemote.body)} :
               parsed.err =>
                   /\ Contains(lastResp.result.Text, Itoa(lastRemote.status))
                   /\ Contains(lastResp.result.Text, lastRemote.body)

C3_Witness ==
    /\ Answering("tool")
    /\ NonSuccess
    /\ lastRemote.body = "Bad Gateway"
    /\ Contains(lastResp.result.Text, "HTTP status 429: Bad Gateway")

\* C4: a resource read whose search_id is absent, no string or empty fails
\* with the one error the request determines, which names search_id and the
\* requested URI; there is no content, no Search and nothing is sent.
C4_MissingSearchID ==
    (Answering("resource") /\ NotAString(lastReq.Arguments.search_id)) =>
        /\ lastResp.contents = <<>>
        /\ ~lastResp.err.isNil
        /\ lastResp.err.text = "missing 'search_id' argument in resource request for URI "
                               \o lastReq.URI
        /\ Contains(lastResp.err.text, "search_id")
        /\ Contains(lastResp.err.text, lastReq.URI)
        /\ lastResp.searches = <<>>
        /\ httpLog = <<>>

C4_Witness ==
    /\ Answering("resource")
    /\ lastReq.Arguments.search_id = StrArg("")
    /\ ~lastResp.err.isNil

RequestFailed ==
    \/ lastReq.kind = "tool" /\ NotAString(lastReq.Arguments.query)
    \/ lastReq.kind = "resource" /\ NotAString(lastReq.Arguments.search_id)
    \/ lastRemote.kind \in {"transport", "readfail"}
    \/ NonSuccess
    \/ lastRemote.kind = "response" /\ UnmarshalSearchResponse(lastRemote.body).err

\* C6: once serving, a failing request does not end the process: the tool
\* handler returns an error result and a nil error, the resource handler an
\* error; every request handed to a handler gets its answer, and the
\* process dies only of the transport.
C6_FailuresAreAnswered ==
    /\ pc = "serving" => responses = requests
    /\ pc = "responding" => responses + 1 = requests
    /\ pc \in {"fatal", "done"} => responses = requests
    /\ (pc = "fatal" /\ requests > 0) => fatalMsg = "Server error: transport"
    /\ Answering("tool") =>
           /\ lastResp.err.isNil
           /\ RequestFailed => (lastResp.result.IsError /\ lastResp.result.Text # "")
    /\ (Answering("resource") /\ RequestFailed) =>
           (~lastResp.err.isNil /\ lastResp.contents = <<>>)

\* a second failing request being answered after a first failing one
C6_Witness ==
    /\ pc = "responding"
    /\ failures >= 2
    /\ RequestFailed

\* C7: requests are served only with a non-empty key read from the
\* environment, a client made from it and a server made with that client;
\* without a key the process dies before serving; start-up dies of nothing else.
C7_StartupOrder ==
    /\ (pc \in {"serving", "responding", "done"} \/ requests > 0) =>
           /\ apiKey # ""
           /\ apiKey = Getenv(osEnv)
           /\ ~masaClient.isNil
           /\ masaClient.apiKey = apiKey
           /\ ~mcpServer.isNil
           /\ mcpServer.masaClient = masaClient
    /\ (pc \notin {"loadEnv", "getenv"} /\ Getenv(osEnv) = "") =>
           (pc = "fatal" /\ requests = 0 /\ mcpServer.isNil)
    /\ (pc = "fatal" /\ fatalMsg # "Server error: transport") => apiKey = ""

\* serving although the .env file could not be loaded
C7_Witness ==
    /\ pc = "responding"
    /\ envWarned
    /\ apiKey = "key-env"

\* the ids of the items of a search response body, as written in the body
RECURSIVE IDsFrom(_, _)
IDsFrom(items, i) ==
    IF i > Len(items) THEN <<>>
    ELSE <<StrField(items[i], "id").v>> \o IDsFrom(items, i + 1)

RawItemIDs(doc) ==
    IF doc.k = "obj" /\ Present(doc, "items") THEN IDsFrom(Field(doc, "items").a, 1)
    ELSE <<>>

\* C8: a 2xx answer with a well-formed body gives a result that is no error
\* and embeds one resource: its URI is the prefix followed by the query, and
\* its text decodes to a SearchResponse with the items of the body, in order.
C8_RoundTrip ==
    (Answering("tool") /\ lastRemote.kind = "response" /\ ~NonSuccess) =>
        \A sent \in {UnmarshalSearchResponse(lastRemote.body)} :
            ~sent.err =>
                /\ ~lastResp.result.IsError
                /\ lastResp.err.isNil
                /\ Len(lastResp.result.Resource) = 1
                /\ lastResp.result.Resource[1].URI =
                       "masax://search/results/" \o lastReq.Arguments.query.s
                /\ lastResp.result.Resource[1].MIMEType = "application/json"
                /\ \A back \in {UnmarshalSearchResponse(lastResp.result.Resource[1].Text)} :
                       /\ ~back.err
                       /\ back.v.Items = sent.v.Items
                       /\ [i \in 1..Len(back.v.Items.v) |-> back.v.Items.v[i].ID]
                              = RawItemIDs(Decode(lastRemote.body).v)

\* the two items of the remote's answer, second before first by id
C8_Witness ==
    /\ Answering("tool")
    /\ lastRemote.kind = "response"
    /\ lastRemote.body = TwoItemsBody
    /\ lastReq.Arguments.query = StrArg("say \"hi\"")
    /\ lastReq.Arguments.max_results = NumArg(25)
    /\ Len(lastResp.result.Resource) = 1
    /\ Contains(lastResp.result.Resource[1].Text,
                "\"text\": \"a \\\"b\\\" / \\u003cc\\u003e\"")

\* C9 as stated: a resource read with a non-empty search_id searches for the
\* id with max_results 0; a success gives one content item with the requested
\* URI and application/json, a failure no content and an error whose text
\* contains the id and the text of Search's error.
C9_ReadSearchResult ==
    (Answering("resource") /\ ~NotAString(lastReq.Arguments.search_id)) =>
        /\ lastResp.searches = <<[Query |-> lastReq.Arguments.search_id.s, MaxResults |-> 0]>>
        /\ IF lastResp.searchErr.isNil
           THEN /\ lastResp.err.isNil
                /\ Len(lastResp.contents) = 1
                /\ lastResp.contents[1].URI = lastReq.URI
                /\ lastResp.contents[1].MIMEType = "application/json"
           ELSE /\ lastResp.contents = <<>>
                /\ ~lastResp.err.isNil
                /\ Contains(lastResp.err.text, lastReq.Arguments.search_id.s)
                /\ Contains(lastResp.err.text, lastResp.searchErr.text)

\* C10 as stated: every request sent has a non-empty query, and max_results
\* is left out (when the extracted value is 0) or is a non-negative integer,
\* the supplied number without its fraction.
C10_SentRequestWellFormed ==
    \A i \in 1..Len(httpLog) :
        \A doc \in {Decode(httpLog[i].body)} :
            /\ doc.ok
            /\ doc.v.k = "obj"
            /\ StrField(doc.v, "query").ok
            /\ StrField(doc.v, "query").v # ""
            /\ HasField(doc.v, "max_results") =>
                   /\ Field(doc.v, "max_results").k = "num"
                   /\ Field(doc.v, "max_results").n >= 0
                   /\ lastReq.kind = "tool"
                   /\ lastReq.Arguments.max_results.t = "num"
                   /\ Field(doc.v, "max_results").n * 10 <= lastReq.Arguments.max_results.n
                   /\ lastReq.Arguments.max_results.n < (Field(doc.v, "max_results").n + 1) * 10

====
